---- MODULE Spec2Model ----
(***************************************************************************)
(* Model of the article summarizer (src/src/app.py): the module-level main *)
(* loop over the RSS feeds, read_history / get_summarize / write_history,  *)
(* and the helpers get_content and get_article.  The history table, the    *)
(* feed parser, the HTTP client and the chat-completion API are the        *)
(* environment: every call to one of them draws its outcome from the       *)
(* outcomes the code distinguishes.  Spec is the script run against the    *)
(* feeds; SpecExtract is get_article called on documents of its own, with  *)
(* texts given character run by character run.                             *)
(***************************************************************************)
EXTENDS Integers, Sequences, FiniteSets, TLC

\* ------------------------------------------------------------------ bounds
\* Number of times the script is started (each start is one run).
MaxRuns == 2
\* Number of environment outcomes other than the nominal one (feed status
\* 200, get_entity answering truthfully, HTTP 200 with the link's page,
\* completion returned, upsert accepted) in one behaviour.
MaxFaults == 1

\* ------------------------------------------------------- program constants
\* app.py:269   if i > 10: break
Cap == 10

\* ------------------------------------------------------------- the inputs
\* RSS_URL split on "|" (app.py:259).
rss_urls == << "https://x/rss", "https://y/rss" >>

Entry(id, link) == [id |-> id, link |-> link]

\* What feedparser.parse returns for each URL when the feed is readable: the
\* feed title and the entries in the order of the source.  The second feed
\* holds one entry more than the cap.
FeedTitle(url) == IF url = "https://x/rss" THEN "Tech Blog" ELSE "News"

FeedEntries(url) ==
    IF url = "https://x/rss"
    THEN << Entry("e1", "https://x/a"), Entry("e2", "https://x/b") >>
    ELSE << Entry("n1", "https://y/1"), Entry("n2", "https://y/2"),
            Entry("n3", "https://y/3"), Entry("n4", "https://y/4"),
            Entry("n5", "https://y/5"), Entry("n6", "https://y/6"),
            Entry("n7", "https://y/7"), Entry("n8", "https://y/8"),
            Entry("n9", "https://y/9"), Entry("n10", "https://y/10"),
            Entry("n11", "https://y/11") >>

\* feed.status values the parser can report.
FeedStatuses == {200, 404, 500}

\* hashlib.md5(s.encode('utf-8')).hexdigest() on the strings of the inputs.
md5(s) ==
    CASE s = "Tech Blog" -> "d20aa59e2ed5c235b4a3993cbce3d0dd"
      [] s = "News"      -> "dd1ba1872df91985ed1ca4cde2dfe669"
      [] s = "e1"        -> "cd3dc8b6cffb41e4163dcbd857ca87da"
      [] s = "e2"        -> "68a9e49bbc88c02083a062a78ab3bf30"
      [] s = "n1"        -> "c82561ec215a6e31807ceedf3b3bd25e"
      [] s = "n2"        -> "a6bbc91ae73dd21c0533f735470a9cd0"
      [] s = "n3"        -> "4443aee183b279f76a95c13c7f5bca0d"
      [] s = "n4"        -> "ed23e9d533a3992b2bfeef6f8601a945"
      [] s = "n5"        -> "8eb6d8747175919f27472673a32b3eca"
      [] s = "n6"        -> "b555773768bc1a672947d7f41f9c247f"
      [] s = "n7"        -> "c364e7cd25ef8288236d31f1ed69a94a"
      [] s = "n8"        -> "5849253c0c07f8894c9ff2e5b69e834a"
      [] s = "n9"        -> "06e7223b88d7d4640370627fd53901dc"
      [] s = "n10"       -> "b673e0e04fef7b457fb2825b040b844c"
      [] s = "n11"       -> "c1aae165bc91698aa6f7fe3a36fb8bd2"

\* -------------------------------------------------------------------- texts
\* A text is a sequence of spans.  A span is a run of n characters of one kind:
\* c = "w" for characters that are neither white space nor a separator, " " for
\* spaces, "\n" for line feeds, and the separator itself for a separator (one
\* span per separator character).  s spells the span out, or names it when it
\* is long.  U+3001 and U+3002 are the ideographic comma and full stop.
Span(c, s, n) == [c |-> c, s |-> s, n |-> n]
W(s) == Span("w", s, Len(s))
Sp == Span(" ", " ", 1)
Nl == Span("\n", "\n", 1)
Sep(c) == Span(c, c, 1)

WhiteSpace == {" ", "\n"}

\* len(text)
RECURSIVE TextLen(_)
TextLen(text) == IF text = <<>> THEN 0 ELSE Head(text).n + TextLen(Tail(text))

\* "".join(texts)
RECURSIVE Flat(_)
Flat(texts) == IF texts = <<>> THEN <<>> ELSE Head(texts) \o Flat(Tail(texts))

\* The str the spans spell.
RECURSIVE Render(_)
Render(text) == IF text = <<>> THEN "" ELSE Head(text).s \o Render(Tail(text))

\* text.strip()
RECURSIVE lstrip(_)
lstrip(text) ==
    IF text # <<>> /\ Head(text).c \in WhiteSpace THEN lstrip(Tail(text)) ELSE text

RECURSIVE rstrip(_)
rstrip(text) ==
    IF text # <<>> /\ text[Len(text)].c \in WhiteSpace
    THEN rstrip(SubSeq(text, 1, Len(text) - 1))
    ELSE text

strip(text) == rstrip(lstrip(text))

\* ---------------------------------------------------------- HTML documents
\* A parsed document is a tree: an element has a tag and children, a text node
\* (tag "#text") has a text.
El(tag, kids) == [tag |-> tag, text |-> <<>>, kids |-> kids]
Txt(text) == [tag |-> "#text", text |-> text, kids |-> <<>>]

\* A value get_content can return: the str "" or the bytes of a response body,
\* given by the tree html.parser builds from them.
EmptyString == [type |-> "str", soup |-> El("[document]", <<>>)]
Bytes(elements) == [type |-> "bytes", soup |-> El("[document]", elements)]

\* No h1, or an h1 with this text.
NoH1 == <<>>
H1(text) == << El("h1", << Txt(text) >>) >>

\* A page with a site header, then a container element (a div when container is
\* "none") holding the heading, if any, and one paragraph.
Page(container, h1, body) ==
    Bytes(<< El("header", << Txt(<< W("Site") >>) >>),
             El(IF container = "none" THEN "div" ELSE container,
                h1 \o << El("p", << Txt(body) >>) >>) >>)

\* The page each link serves when nothing goes wrong.
Web(link) ==
    IF link = "https://x/a"
    THEN Page("article", H1(<< W("Hello") >>), << W("World"), Sep(".") >>)
    ELSE Page("article", H1(<< W("About"), Sp, W(link) >>),
              << W("Text"), Sp, W("of"), Sp, W(link), Sep(".") >>)

\* Pages a link may serve instead: no article or main element at all, and a
\* main element without an h1.
NoContainerPage == Page("none", NoH1, <<>>)
NoHeadingPage == Page("main", NoH1, << W("Only"), Sp, W("text"), Sep(".") >>)

\* What requests.get(url, timeout=10) does: raise ("Timeout", or any other
\* exception), or return a response with a status code and a body.
Response(exc, status_code, content) ==
    [exc |-> exc, status_code |-> status_code, content |-> content]

NominalResponse(url) == Response("none", 200, Web(url))

Responses(url) ==
    { NominalResponse(url),
      Response("Timeout", 0, EmptyString),
      Response("Exception", 0, EmptyString),
      Response("none", 503, Web(url)),
      Response("none", 404, Web(url)),
      Response("none", 301, Web(url)),
      Response("none", 200, NoContainerPage),
      Response("none", 200, NoHeadingPage) }

\* ------------------------------------------------------------- get_content
\* get_content(url), given what requests.get did: "" on a timeout, on any other
\* exception and on a status code of 300 or more; the body otherwise.
get_content(response) ==
    IF response.exc # "none" THEN EmptyString
    ELSE IF response.status_code >= 500 THEN EmptyString
    ELSE IF response.status_code >= 400 THEN EmptyString
    ELSE IF response.status_code >= 300 THEN EmptyString
    ELSE response.content

\* ----------------------------------------------------------- BeautifulSoup
BeautifulSoup(content) == content.soup

\* node.get_text(): the texts of the text nodes below node, in document order.
RECURSIVE get_text(_)
get_text(node) ==
    IF node.tag = "#text" THEN node.text
    ELSE Flat([k \in 1..Len(node.kids) |-> get_text(node.kids[k])])

\* The path (child positions) of the first element below node, in document
\* order and from child k on, whose tag is one of tags; <<>> when there is none.
RECURSIVE FirstFrom(_, _, _)
FirstFrom(node, tags, k) ==
    IF k > Len(node.kids) THEN <<>>
    ELSE IF node.kids[k].tag \in tags THEN << k >>
    ELSE LET below == FirstFrom(node.kids[k], tags, 1) IN
         IF below # <<>> THEN << k >> \o below ELSE FirstFrom(node, tags, k + 1)

\* node.find(tags): None is the empty path.
find(node, tags) == FirstFrom(node, tags, 1)

RECURSIVE NodeAt(_, _)
NodeAt(node, path) ==
    IF path = <<>> THEN node ELSE NodeAt(node.kids[Head(path)], Tail(path))

\* Mutant: the element stays in the tree.
decompose_Keep(node, path) == node

\* The tree below node after the element at path was decomposed.
RECURSIVE decompose(_, _)
decompose(node, path) ==
    LET k == Head(path) IN
    IF Len(path) = 1
    THEN [node EXCEPT !.kids = SubSeq(node.kids, 1, k - 1)
                                 \o SubSeq(node.kids, k + 1, Len(node.kids))]
    ELSE [node EXCEPT !.kids[k] = decompose(node.kids[k], Tail(path))]

\* Lines 104-107: every element below node with one of these tags is decomposed.
unneeded == {"img", "footer", "source", "style", "picture", "figure"}

RECURSIVE RemoveAll(_, _)
RemoveAll(node, tags) ==
    LET kept == SelectSeq(node.kids, LAMBDA kid : kid.tag \notin tags) IN
    [node EXCEPT !.kids = [k \in 1..Len(kept) |-> RemoveAll(kept[k], tags)]]

HasLineFeed(text) == \E k \in 1..Len(text) : text[k].c = "\n"

\* Lines 109-113: the content of a code or pre element whose stripped text
\* spans several lines is replaced by that text between "'''code" and "'''".
\* The elements are visited in document order, so an element inside a replaced
\* one is no longer part of the tree when its turn comes.
RECURSIVE FenceCode(_)
FenceCode(node) ==
    IF node.tag \in {"code", "pre"} /\ HasLineFeed(strip(get_text(node)))
    THEN El(node.tag,
            << Txt(<< Nl, W("'''code"), Nl >> \o strip(get_text(node))
                   \o << Nl, W("'''"), Nl >>) >>)
    ELSE [node EXCEPT !.kids = [k \in 1..Len(node.kids) |-> FenceCode(node.kids[k])]]

\* ------------------------------------------- RecursiveCharacterTextSplitter
\* Lines 116-120: the splitter's configuration; keep_separator and
\* strip_whitespace are left at their defaults (True).
chunk_size == 2000
separators == << ",", ".", "U+3001", "U+3002" >>

Has(text, separator) == \E k \in 1..Len(text) : text[k].c = separator

\* The text cut in front of every occurrence of the separator (keep_separator
\* puts a separator at the start of the piece that follows it); empty pieces
\* are dropped.
RECURSIVE CutBefore(_, _, _)
CutBefore(text, separator, piece) ==
    IF text = <<>> THEN (IF piece = <<>> THEN <<>> ELSE << piece >>)
    ELSE IF Head(text).c = separator
         THEN (IF piece = <<>> THEN <<>> ELSE << piece >>)
              \o CutBefore(Tail(text), separator, << Head(text) >>)
         ELSE CutBefore(Tail(text), separator, Append(piece, Head(text)))

_split_text_with_regex(text, separator) == CutBefore(text, separator, <<>>)

\* Mutant: the pieces of a chunk are joined without stripping white space.
_join_docs_NoStrip(docs) ==
    IF Flat(docs) = <<>> THEN <<>> ELSE << Flat(docs) >>

\* The pieces joined and stripped: one chunk, or none when nothing is left.
_join_docs(docs) ==
    IF strip(Flat(docs)) = <<>> THEN <<>> ELSE << strip(Flat(docs)) >>

\* _merge_splits with an empty joining separator and no overlap: pieces are
\* collected while they fit in chunk_size; when the next one does not fit the
\* collected ones become a chunk.
RECURSIVE MergeFrom(_, _, _)
MergeFrom(splits, current_doc, total) ==
    IF splits = <<>> THEN _join_docs(current_doc)
    ELSE LET d == Head(splits) IN
         IF total + TextLen(d) > chunk_size /\ current_doc # <<>>
         THEN _join_docs(current_doc) \o MergeFrom(Tail(splits), << d >>, TextLen(d))
         ELSE MergeFrom(Tail(splits), Append(current_doc, d), total + TextLen(d))

_merge_splits(splits) == MergeFrom(splits, <<>>, 0)

\* _split_text: the text is cut at the first of the separators it holds (at
\* the last of them when it holds none); pieces shorter than chunk_size are
\* merged, a piece that is not is split again with the separators that follow,
\* and is a chunk as it is when no separator follows.
RECURSIVE _split_text(_, _)
RECURSIVE SplitFrom(_, _, _)
SplitFrom(splits, _good_splits, new_separators) ==
    IF splits = <<>>
    THEN _merge_splits(_good_splits)
    ELSE LET s == Head(splits) IN
         IF TextLen(s) < chunk_size
         THEN SplitFrom(Tail(splits), Append(_good_splits, s), new_separators)
         ELSE _merge_splits(_good_splits)
              \o (IF new_separators = <<>>
                  THEN << s >>
                  ELSE _split_text(s, new_separators))
              \o SplitFrom(Tail(splits), <<>>, new_separators)

_split_text(text, seps) ==
    LET present == { k \in 1..Len(seps) : Has(text, seps[k]) }
        first == IF present = {} THEN Len(seps)
                 ELSE CHOOSE k \in present : \A j \in present : k <= j
        new_separators == IF present = {} THEN <<>>
                          ELSE SubSeq(seps, first + 1, Len(seps))
    IN SplitFrom(_split_text_with_regex(text, seps[first]), <<>>, new_separators)

\* text_splitter.split_text(text)
split_text(text) == _split_text(text, separators)

\* ------------------------------------------------------------- get_article
\* Line 125: f"title: {h1_text}"
Title(h1_text) == << W("title:"), Sp >> \o h1_text

\* Lines 98-127, given the container: the h1 is looked for below it and
\* decomposed, the unneeded elements are removed, code is fenced, the text is
\* split.  h1_text is bound only when the container holds an h1, and line 124
\* reads it in both cases: without an h1 the read raises UnboundLocalError.
\* text is the text handed to the splitter.
extract(article_content) ==
    LET h1 == find(article_content, {"h1"})
        h1_text == get_text(NodeAt(article_content, h1))
        text == get_text(FenceCode(RemoveAll(
                    IF h1 # <<>> THEN decompose(article_content, h1)
                    ELSE article_content, unneeded)))
    IN IF h1 = <<>>
       THEN [raised |-> TRUE, text_chunks |-> <<>>, text |-> text]
       ELSE [raised |-> FALSE, text_chunks |-> << Title(h1_text) >> \o split_text(text),
             text |-> text]

\* Line 93: soup.find(["article", "main"]), the first element in document
\* order that is an article or a main element.
Container(soup) == find(soup, {"article", "main"})

\* get_article(content): [] when there is no article or main element.
get_article(content) ==
    LET soup == BeautifulSoup(content)
        article_content == Container(soup)
    IN IF article_content = <<>>
       THEN [raised |-> FALSE, text_chunks |-> <<>>, text |-> <<>>]
       ELSE extract(NodeAt(soup, article_content))

\* ----------------------------------------------------------- get_summarize
\* The chat completion (temperature 0) as a function of the user messages: the
\* first chunk, then the others after "summary: ".
RECURSIVE JoinChunks(_)
JoinChunks(chunks) ==
    IF chunks = <<>> THEN "" ELSE Render(Head(chunks)) \o JoinChunks(Tail(chunks))

ChatCompletion(text_chunks) ==
    Render(Head(text_chunks)) \o "\nsummary: " \o JoinChunks(Tail(text_chunks))

\* What client.chat.completions.create does: return, or raise.
Completions == {"ok", "error"}

\* One thing a call did, as the callers see it.
Ev(op, res, ok) == [op |-> op, res |-> res, ok |-> ok]

\* Mutant: the failure handler returns the message it logs.
SummarizerFailureResult_Message == "Unknown error occurred"

\* The value get_summarize returns when the completion call raises.
SummarizerFailureResult == ""

\* get_summarize(url), given what the HTTP request and the completion call do:
\* the value returned, whether an exception left the function, and the calls
\* made in order.
get_summarize(url, response, completion) ==
    LET content == get_content(response) IN
    IF content = EmptyString
    THEN [raised |-> FALSE, ret |-> "", stage |-> "FetchFailed",
          events |-> << Ev("fetch", "", FALSE),
                        Ev("warning", "Failed to retrieve the HTML content", TRUE) >>]
    ELSE LET article == get_article(content) IN
         IF article.raised
         THEN [raised |-> TRUE, ret |-> "", stage |-> "Raised",
               events |-> << Ev("fetch", "content", TRUE),
                             Ev("extract", "UnboundLocalError", FALSE) >>]
         ELSE IF Len(article.text_chunks) = 0
         THEN [raised |-> FALSE, ret |-> "", stage |-> "NoArticle",
               events |-> << Ev("fetch", "content", TRUE),
                             Ev("extract", "[]", TRUE),
                             Ev("warning", "does not contain an article tag", TRUE) >>]
         ELSE IF completion = "error"
         THEN [raised |-> FALSE, ret |-> SummarizerFailureResult,
               stage |-> "SummarizationFailed",
               events |-> << Ev("fetch", "content", TRUE),
                             Ev("extract", "chunks", TRUE),
                             Ev("summarize", "", FALSE),
                             Ev("error", "Unknown error occurred", TRUE) >>]
         ELSE [raised |-> FALSE, ret |-> ChatCompletion(article.text_chunks),
               stage |-> "Summarized",
               events |-> << Ev("fetch", "content", TRUE),
                             Ev("extract", "chunks", TRUE),
                             Ev("summarize", ChatCompletion(article.text_chunks), TRUE) >>]

\* ------------------------------------------------------- the history table
\* The entity write_history builds.
Entity(partition_key, row_key, url, content) ==
    [PartitionKey |-> partition_key, RowKey |-> row_key,
     url |-> url, content |-> content]

Lookup(tbl, partition_key, row_key) ==
    { e \in tbl : e.PartitionKey = partition_key /\ e.RowKey = row_key }

\* table_client.upsert_entity: insert, or replace the entity with the same keys.
upsert_entity(tbl, entity) ==
    (tbl \ Lookup(tbl, entity.PartitionKey, entity.RowKey)) \cup {entity}

\* Mutant: the entity reaches the table although the upsert reported a failure.
write_history_StoresOnFailure(tbl, partition_key, row_key, url, content, failed) ==
    upsert_entity(tbl, Entity(partition_key, row_key, url, content))

\* write_history: the table afterwards; a failed upsert is caught and logged and
\* leaves the table as it was.
write_history(tbl, partition_key, row_key, url, content, failed) ==
    IF failed THEN tbl
    ELSE upsert_entity(tbl, Entity(partition_key, row_key, url, content))

\* Mutant: a get_entity that raises reads as an entity.
read_history_FailureIsEntity(tbl, partition_key, row_key, failed) ==
    IF failed THEN { Entity(partition_key, row_key, "", "") }
    ELSE Lookup(tbl, partition_key, row_key)

\* Mutant: read_history never finds an entity.
read_history_NeverFinds(tbl, partition_key, row_key, failed) == {}

\* read_history: the entity, or None (here the empty set) when get_entity
\* raises, which it does when there is no such entity and on any other error.
read_history(tbl, partition_key, row_key, failed) ==
    IF failed THEN {} ELSE Lookup(tbl, partition_key, row_key)

\* Mutant: the continue of line 275 is never taken.
HistoryFound_Never(history) == FALSE

\* Line 274: the entry is skipped when history is not None.
HistoryFound(history) == history # {}

\* Mutant: only server errors make the feed unavailable.
FeedUnavailable_ServerErrorOnly(status) == status >= 500

\* Line 264: the feed is skipped when its status is not 200.
FeedUnavailable(status) == status # 200

\* Mutant: the loop over the entries is left one entry later.
CapReached_OneLater(count) == count > Cap + 1

\* Line 269: the loop over the entries is left when i > 10.
CapReached(count) == count > Cap

\* The keys the main loop computes for the entry at position n of feed f.
KeyOf(f, n) ==
    << md5(FeedTitle(rss_urls[f])), md5(FeedEntries(rss_urls[f])[n].id) >>

\* The entries (feed, position) the main loop comes to when every feed is
\* readable: the first Cap of each feed.
UnderCap ==
    { fn \in (1..Len(rss_urls)) \X (1..Cap) : fn[2] <= Len(FeedEntries(rss_urls[fn[1]])) }

\* The table as an earlier run leaves it when every feed was readable, the
\* completion call failed for the first entry of the first feed and nothing
\* else went wrong.
TableAfterFailedCompletion ==
    { Entity(KeyOf(fn[1], fn[2])[1], KeyOf(fn[1], fn[2])[2],
             FeedEntries(rss_urls[fn[1]])[fn[2]].link,
             IF fn = << 1, 1 >>
             THEN ""
             ELSE ChatCompletion(
                    get_article(Web(FeedEntries(rss_urls[fn[1]])[fn[2]].link)).text_chunks))
      : fn \in UnderCap }

\* ------------------------------------------------------------------- state
VARIABLES
    table,              \* the entities of the history table
    run,                \* which start of the script this is
    pc,                 \* where the script is: "feed", "entry", "summarize",
                        \* "write", "done" (normal end), "crashed" (uncaught exception)
    fidx,               \* position of rss_url in rss_urls
    i,                  \* the counter i of the main loop
    pos,                \* position of entry in feed.entries
    partition_key, row_key, summarized_content,
    trace,              \* the calls of this run, in order
    faults,             \* outcomes other than the nominal one so far
    poisoned,           \* entries whose completion call failed in an earlier run
    skipped,            \* entries whose fetch or extraction gave nothing in the previous run
    stored,             \* entries for which an upsert succeeded in an earlier run
    complete,           \* at the start of this run the table held an entity for
                        \* each of the first Cap entries of every feed
    html,               \* a content handed to get_article on its own
    extracted           \* what get_article did with it

vars == << table, run, pc, fidx, i, pos, partition_key, row_key,
           summarized_content, trace, faults, poisoned, skipped, stored, complete,
           html, extracted >>

rss_url == rss_urls[fidx]
entry == FeedEntries(rss_url)[pos]

Cost(fault) == IF fault THEN 1 ELSE 0

\* A call of the trace: what was called, what it gave, for which entry (n = 0:
\* for the feed), under which keys, and whether the table held an entity for
\* those keys at that moment.
Tag(ev, f, n, pk, rk) ==
    [op |-> ev.op, res |-> ev.res, ok |-> ev.ok, f |-> f, n |-> n,
     pk |-> pk, rk |-> rk, ex |-> Lookup(table, pk, rk) # {}]

TagAll(evs, f, n, pk, rk) == [k \in 1..Len(evs) |-> Tag(evs[k], f, n, pk, rk)]

\* get_article was not called on html yet.
NotCalled == [done |-> FALSE, raised |-> FALSE, text_chunks |-> <<>>, text |-> <<>>]

\* The script starts with a valid configuration, against an empty table or
\* against the table an earlier run left.
Init ==
    /\ \/ /\ table = {}
          /\ poisoned = {}
          /\ stored = {}
          /\ complete = FALSE
       \/ /\ table = TableAfterFailedCompletion
          /\ poisoned = { << 1, 1 >> }
          /\ stored = UnderCap
          /\ complete = TRUE
    /\ run = 1
    /\ pc = "feed"
    /\ fidx = 1
    /\ i = 0
    /\ pos = 0
    /\ partition_key = ""
    /\ row_key = ""
    /\ summarized_content = ""
    /\ trace = <<>>
    /\ faults = 0
    /\ skipped = {}
    /\ html = EmptyString
    /\ extracted = NotCalled

\* Lines 261-267: the next feed is parsed; a feed whose status is not 200 is
\* logged and skipped.
ParseFeed ==
    /\ pc = "feed"
    /\ fidx <= Len(rss_urls)
    /\ \E status \in FeedStatuses :
        /\ faults + Cost(status # 200) <= MaxFaults
        /\ faults' = faults + Cost(status # 200)
        /\ i' = 1
        /\ IF FeedUnavailable(status)
           THEN /\ trace' = trace \o TagAll(<< Ev("parse", "unavailable", FALSE),
                                               Ev("warning", "Unable to read RSS Feed", TRUE) >>,
                                            fidx, 0, "", "")
                /\ fidx' = fidx + 1
                /\ UNCHANGED << pc, pos, partition_key >>
           ELSE /\ trace' = trace \o TagAll(<< Ev("parse", "ok", status = 200) >>,
                                            fidx, 0, "", "")
                /\ partition_key' = md5(FeedTitle(rss_url))
                /\ pos' = 1
                /\ pc' = "entry"
                /\ UNCHANGED fidx
    /\ UNCHANGED << table, run, row_key, summarized_content, poisoned, skipped, stored, complete >>
    /\ UNCHANGED << html, extracted >>

\* Lines 268-270: the entries are exhausted, or the cap is reached; on to the
\* next feed.
EndFeed ==
    /\ pc = "entry"
    /\ pos > Len(FeedEntries(rss_url)) \/ CapReached(i)
    /\ fidx' = fidx + 1
    /\ pc' = "feed"
    /\ UNCHANGED << table, run, i, pos, partition_key, row_key,
                    summarized_content, trace, faults, poisoned, skipped, stored, complete >>
    /\ UNCHANGED << html, extracted >>

\* Lines 269-275: the next entry is counted, its row key computed and the
\* history table read; an entry with a history is skipped.
ReadHistory ==
    /\ pc = "entry"
    /\ pos <= Len(FeedEntries(rss_url))
    /\ ~ CapReached(i)
    /\ i' = i + 1
    /\ row_key' = md5(entry.id)
    /\ \E failed \in BOOLEAN :
        LET history == read_history(table, partition_key, row_key', failed) IN
        /\ faults + Cost(failed) <= MaxFaults
        /\ faults' = faults + Cost(failed)
        /\ trace' = trace \o TagAll(
                << Ev("get", IF history = {} THEN "None" ELSE "entity", ~ failed) >>,
                fidx, pos, partition_key, row_key')
        /\ IF HistoryFound(history)
           THEN pos' = pos + 1 /\ pc' = "entry"
           ELSE pos' = pos /\ pc' = "summarize"
    /\ UNCHANGED << table, run, fidx, partition_key, summarized_content,
                    poisoned, skipped, stored, complete >>
    /\ UNCHANGED << html, extracted >>

\* Line 276: get_summarize(entry.link).  An exception that leaves it is caught
\* nowhere and ends the script.
GetSummarize ==
    /\ pc = "summarize"
    /\ \E response \in Responses(entry.link), completion \in Completions :
        LET r == get_summarize(entry.link, response, completion)
            cost == Cost(response # NominalResponse(entry.link))
                    + Cost(completion # "ok")
        IN
        /\ r.stage \notin {"SummarizationFailed", "Summarized"} => completion = "ok"
        /\ faults + cost <= MaxFaults
        /\ faults' = faults + cost
        /\ trace' = trace \o TagAll(r.events, fidx, pos, partition_key, row_key)
        /\ IF r.raised
           THEN pc' = "crashed" /\ UNCHANGED summarized_content
           ELSE pc' = "write" /\ summarized_content' = r.ret
    /\ UNCHANGED << table, run, fidx, i, pos, partition_key, row_key,
                    poisoned, skipped, stored, complete >>
    /\ UNCHANGED << html, extracted >>

\* Lines 277-278: write_history, then the result is logged at level info.
WriteHistory ==
    /\ pc = "write"
    /\ \E failed \in BOOLEAN :
        /\ faults + Cost(failed) <= MaxFaults
        /\ faults' = faults + Cost(failed)
        /\ table' = write_history(table, partition_key, row_key, entry.link,
                                  summarized_content, failed)
        /\ trace' = trace \o TagAll(
                << Ev("put", summarized_content, ~ failed) >>
                \o (IF failed
                    THEN << Ev("error", "Write to history table failed", TRUE) >>
                    ELSE <<>>)
                \o << Ev("info", summarized_content, TRUE) >>,
                fidx, pos, partition_key, row_key)
    /\ pos' = pos + 1
    /\ pc' = "entry"
    /\ UNCHANGED << run, fidx, i, partition_key, row_key, summarized_content,
                    poisoned, skipped, stored, complete >>
    /\ UNCHANGED << html, extracted >>

\* The loop over rss_urls is exhausted: the script ends normally.
Exit ==
    /\ pc = "feed"
    /\ fidx > Len(rss_urls)
    /\ pc' = "done"
    /\ UNCHANGED << table, run, fidx, i, pos, partition_key, row_key,
                    summarized_content, trace, faults, poisoned, skipped, stored, complete >>
    /\ UNCHANGED << html, extracted >>

\* The entries (feed, position) for which the trace holds a call like this.
EntriesWith(tr, op, res, ok) ==
    { << tr[k].f, tr[k].n >> :
        k \in { j \in 1..Len(tr) : tr[j].op = op /\ tr[j].res = res /\ tr[j].ok = ok } }

\* The script is started again, against the same feeds and the table as the
\* earlier runs left it.
NextRun ==
    /\ pc \in {"done", "crashed"}
    /\ run < MaxRuns
    /\ run' = run + 1
    /\ pc' = "feed"
    /\ fidx' = 1
    /\ i' = 0
    /\ pos' = 0
    /\ partition_key' = ""
    /\ row_key' = ""
    /\ summarized_content' = ""
    /\ trace' = <<>>
    /\ poisoned' = poisoned \cup EntriesWith(trace, "summarize", "", FALSE)
    /\ skipped' = EntriesWith(trace, "fetch", "", FALSE)
                    \cup EntriesWith(trace, "extract", "[]", TRUE)
    /\ stored' = stored \cup { << trace[k].f, trace[k].n >> :
                                k \in { j \in 1..Len(trace) :
                                          trace[j].op = "put" /\ trace[j].ok } }
    /\ complete' = \A fn \in UnderCap :
                        Lookup(table, KeyOf(fn[1], fn[2])[1], KeyOf(fn[1], fn[2])[2]) # {}
    /\ UNCHANGED << table, faults >>
    /\ UNCHANGED << html, extracted >>

Next ==
    \/ ParseFeed
    \/ EndFeed
    \/ ReadHistory
    \/ GetSummarize
    \/ WriteHistory
    \/ Exit
    \/ NextRun

Spec == Init /\ [][Next]_vars

\* ------------------------------------------------- get_article on its own
\* Number of spans in the text of a paragraph.
MaxSpans == 4

\* The spans a paragraph is made of: a short word, runs of 1200, 2000 and 2500
\* characters without white space or separator, separators, a space.
Alphabet ==
    { W("Hi"), Span("w", "a..", 1200), Span("w", "b..", 2000), Span("w", "c..", 2500),
      Sep(","), Sep("."), Sep("U+3002"), Sp }

Texts == UNION { [1..n -> Alphabet] : n \in 0..MaxSpans }

Para(body) == El("p", << Txt(body) >>)

\* No h1, an h1 with a short text, with no text, and with a text of 2500
\* characters.
Headings ==
    { NoH1, H1(<< W("Hello") >>), H1(<<>>), H1(<< Span("w", "h..", 2500) >>) }

\* A main element with a heading and a paragraph of its own.
Portal == El("main", H1(<< W("Portal") >>) \o << Para(<< W("Sidebar"), Sep(".") >>) >>)

\* Documents around one article (or main, or div) element with this heading
\* and this paragraph.
Layouts(h1, body) ==
    { \* neither an article nor a main element
      Bytes(<< El("div", h1 \o << Para(body) >>) >>),
      \* one of them
      Bytes(<< El("article", h1 \o << Para(body) >>) >>),
      Bytes(<< El("main", h1 \o << Para(body) >>) >>),
      \* both, in either order
      Bytes(<< El("article", h1 \o << Para(body) >>), Portal >>),
      Bytes(<< Portal, El("article", h1 \o << Para(body) >>) >>),
      \* the article inside the main element
      Bytes(<< El("main", << Para(<< W("Sidebar"), Sep(".") >>),
                            El("article", h1 \o << Para(body) >>) >>) >>),
      \* the heading further down
      Bytes(<< El("article", << El("div", h1), Para(body) >>) >>),
      \* unneeded elements and code
      Bytes(<< El("article",
                  h1 \o << El("figure", << El("img", <<>>), Txt(<< W("Caption") >>) >>),
                           El("pre", << El("code",
                                << Txt(<< W("x=1"), Nl, W("y=2"), Nl >>) >>) >>),
                           El("code", << Txt(<< W("z") >>) >>),
                           Para(body),
                           El("footer", << Txt(<< W("Footer") >>) >>) >>) >>) }

\* The contents get_article is called with: every layout with every heading,
\* and an article with every text.
Markups ==
    UNION { Layouts(h1, << W("World"), Sep(".") >>) : h1 \in Headings }
    \cup { Bytes(<< El("article", H1(<< W("Hello") >>) \o << Para(text) >>) >>) :
             text \in Texts }

InitExtract ==
    /\ html \in Markups
    /\ extracted = NotCalled
    /\ table = {}
    /\ poisoned = {}
    /\ stored = {}
    /\ complete = FALSE
    /\ run = 1
    /\ pc = "feed"
    /\ fidx = 1
    /\ i = 0
    /\ pos = 0
    /\ partition_key = ""
    /\ row_key = ""
    /\ summarized_content = ""
    /\ trace = <<>>
    /\ faults = 0
    /\ skipped = {}

\* text_chunks = get_article(html)
GetArticle ==
    /\ ~ extracted.done
    /\ extracted' = [done |-> TRUE,
                     raised |-> get_article(html).raised,
                     text_chunks |-> get_article(html).text_chunks,
                     text |-> get_article(html).text]
    /\ UNCHANGED << html, table, run, pc, fidx, i, pos, partition_key, row_key,
                    summarized_content, trace, faults, poisoned, skipped, stored,
                    complete >>

NextExtract == GetArticle

SpecExtract == InitExtract /\ [][NextExtract]_vars

\* ================================================================= claims
\* Positions of the trace holding a call op for the entry at position n of feed f.
At(op, f, n) ==
    { k \in 1..Len(trace) : trace[k].op = op /\ trace[k].f = f /\ trace[k].n = n }

Calls(op) == { k \in 1..Len(trace) : trace[k].op = op }

\* The entry of trace position k went through the fetch, the completion call
\* or the upsert in this run.
Processed(f, n) ==
    \E k \in 1..Len(trace) :
        trace[k].f = f /\ trace[k].n = n
                       /\ trace[k].op \in {"fetch", "summarize", "put"}

\* Before position k, the trace holds a get_entity for the entry and the keys
\* of position k that gave nothing (the nearest position is looked at first).
ReadAbsentBefore(k) ==
    \E d \in 1..(k - 1) :
        /\ trace[k - d].op = "get"
        /\ trace[k - d].res = "None"
        /\ trace[k - d].f = trace[k].f /\ trace[k - d].n = trace[k].n
        /\ trace[k - d].pk = trace[k].pk /\ trace[k - d].rk = trace[k].rk

\* The main loop is through with the entry: it is not between its get_entity
\* and the end of its iteration.
Settled(f, n) == ~ (pc \in {"summarize", "write"} /\ fidx = f /\ pos = n)

\* C1: an entry whose fetch failed, or whose extraction gave no segments, gets
\* no upsert under its keys in that run.
C1_NoPutForSkippedEntry ==
    \A k \in 1..Len(trace) :
        (\/ trace[k].op = "fetch" /\ ~ trace[k].ok
         \/ trace[k].op = "extract" /\ trace[k].res = "[]")
        => At("put", trace[k].f, trace[k].n) = {}

\* C2 as stated: a failed completion call gives the empty string, an entity
\* with empty content is in the table once the entry's iteration is over, and
\* in every later run the entry is neither fetched nor summarized.
C2_PoisonedNeverRetried ==
    /\ \A k \in Calls("summarize") :
          ~ trace[k].ok /\ Settled(trace[k].f, trace[k].n)
          => \E e \in Lookup(table, trace[k].pk, trace[k].rk) : e.content = ""
    /\ \A e \in poisoned :
          At("fetch", e[1], e[2]) \cup At("summarize", e[1], e[2]) = {}

\* C2 as amended: a failed completion call gives the empty string and an upsert
\* with empty content is issued for the entry; when that upsert succeeds the
\* table holds the entity with empty content, and from then on the table holds
\* an entity for the keys and the entry is skipped (no fetch, no completion
\* call, no upsert) in every later run whose get_entity for it does not fail.
C2_PoisonedSkippedWhenRead ==
    /\ \A k \in Calls("summarize") :
          ~ trace[k].ok
          => /\ pc = "write" /\ fidx = trace[k].f /\ pos = trace[k].n
                => summarized_content = ""
             /\ Settled(trace[k].f, trace[k].n)
                => \E j \in At("put", trace[k].f, trace[k].n) :
                      /\ j > k
                      /\ trace[j].res = ""
                      /\ trace[j].ok =>
                            Lookup(table, trace[k].pk, trace[k].rk)
                            = { Entity(trace[k].pk, trace[k].rk,
                                       FeedEntries(rss_urls[trace[k].f])[trace[k].n].link,
                                       "") }
    /\ \A e \in poisoned \cap stored :
          /\ Lookup(table, KeyOf(e[1], e[2])[1], KeyOf(e[1], e[2])[2]) # {}
          /\ \A k \in At("get", e[1], e[2]) :
                trace[k].ok => trace[k].res = "entity" /\ ~ Processed(e[1], e[2])

\* C2, witness: in a later run, an entry whose completion call failed earlier
\* and whose entity was stored is read from the table and skipped.
C2_Witness ==
    \E e \in poisoned \cap stored :
        /\ \E k \in At("get", e[1], e[2]) : trace[k].ok
        /\ Settled(e[1], e[2])
        /\ \E x \in Lookup(table, KeyOf(e[1], e[2])[1], KeyOf(e[1], e[2])[2]) :
              x.content = ""

\* C3 as stated: a run that starts with every key in the table makes no
\* completion call.
C3_NoSummarizerWhenComplete ==
    complete => Calls("summarize") = {}

\* C3 as amended: in a run that starts with every key in the table, a fetch or
\* a completion call is made only for an entry whose get_entity failed in that
\* run; with no failed get_entity there is none.
C3_SummarizerOnlyAfterFailedGet ==
    complete =>
        \A k \in Calls("summarize") \cup Calls("fetch") :
            \E j \in At("get", trace[k].f, trace[k].n) : j < k /\ ~ trace[j].ok

\* C3, witness: a second run over a complete table has ended normally, has read
\* the table for all twelve entries under the cap and made no completion call.
C3_Witness ==
    /\ complete
    /\ pc = "done"
    /\ Cardinality(Calls("get")) = 12
    /\ \A k \in Calls("get") : trace[k].ok
    /\ Calls("summarize") = {}

\* C4 as stated: fetch, completion call and upsert for an entry come only after
\* a get_entity for its keys in the same run that gave nothing, and an entry
\* whose entity exists in the table is skipped.
C4_SkippedWhenRecordExists ==
    /\ \A k \in 1..Len(trace) :
          trace[k].op \in {"fetch", "summarize", "put"} => ReadAbsentBefore(k)
    /\ \A j \in Calls("get") :
          trace[j].ex => ~ Processed(trace[j].f, trace[j].n)

\* C4 as amended: fetch, completion call and upsert for an entry come only after
\* read_history for its keys gave None in the same run (no entity, or get_entity
\* failed), and an entry for which read_history gave an entity is skipped.
C4_SkippedWhenRecordRead ==
    /\ \A k \in 1..Len(trace) :
          trace[k].op \in {"fetch", "summarize", "put"} => ReadAbsentBefore(k)
    /\ \A j \in Calls("get") :
          /\ trace[j].res = "entity" => ~ Processed(trace[j].f, trace[j].n)
          /\ trace[j].res = "entity" <=> (trace[j].ex /\ trace[j].ok)

\* C4, witness: in one run an entry was read from the table and skipped, and
\* another, not in the table, went on to the upsert.
C4_Witness ==
    /\ \E j \in Calls("get") : trace[j].res = "entity" /\ j < Len(trace)
    /\ \E j \in Calls("get") : trace[j].res = "None"
                               /\ At("put", trace[j].f, trace[j].n) # {}

\* The entries of feed f for which get_summarize was called in this run.
Invoked(f) == { n \in 1..Len(FeedEntries(rss_urls[f])) : At("fetch", f, n) # {} }

Min(a, b) == IF a <= b THEN a ELSE b

\* None of the entries of feed f was in the table when this run came to the
\* feed: none was there when it was read, and none the run has not come to is
\* there now.
NoneInTable(f) ==
    \A n \in 1..Len(FeedEntries(rss_urls[f])) :
        IF At("get", f, n) # {}
        THEN \A j \in At("get", f, n) : ~ trace[j].ex
        ELSE Lookup(table, KeyOf(f, n)[1], KeyOf(f, n)[2]) = {}

\* C5: for every feed that was read and had none of its entries in the table, the
\* per-entry pipeline has been invoked on exactly the first min(n, 10) entries
\* when the run is over.
C5_PipelineOnFirstCapEntries ==
    pc \in {"done", "crashed"} =>
        \A k \in Calls("parse") :
            (trace[k].res = "ok" /\ NoneInTable(trace[k].f)) =>
                Invoked(trace[k].f)
                = 1..Min(Len(FeedEntries(rss_urls[trace[k].f])), Cap)

\* C6: an entry skipped in the previous run because its fetch failed or no
\* article was found is fetched again when the next run comes to it.
C6_SkippedEntryFetchedAgain ==
    \A e \in skipped :
        (At("get", e[1], e[2]) # {} /\ Settled(e[1], e[2]))
        => At("fetch", e[1], e[2]) # {}

\* C7: no run ends on an uncaught exception, and a run that has ended has
\* visited every feed.
C7_EveryRunEndsNormally ==
    /\ pc # "crashed"
    /\ pc = "done" => \A f \in 1..Len(rss_urls) : At("parse", f, 0) # {}

\* C8: a feed whose status is not success has no get_entity, fetch, completion
\* call or upsert for any of its entries, is followed by nothing but the
\* warning, and the run goes on with the next feed.
C8_UnavailableFeedSkipped ==
    \A k \in Calls("parse") :
        ~ trace[k].ok =>
            /\ \A j \in 1..Len(trace) :
                  trace[j].f = trace[k].f => trace[j].n = 0
            /\ k + 1 <= Len(trace) /\ trace[k + 1].op = "warning"
            /\ k + 1 = Len(trace)
                  => /\ fidx = trace[k].f + 1
                     /\ pc \in {"feed", "done"}
                     /\ pc = "done" => fidx > Len(rss_urls)
            /\ k + 2 <= Len(trace)
                  => trace[k + 2].op = "parse" /\ trace[k + 2].f = trace[k].f + 1

\* C8, witness: the first feed was unavailable and the run is working on an
\* entry of the second.
C8_Witness ==
    /\ \E k \in Calls("parse") : ~ trace[k].ok /\ trace[k].f = 1
    /\ At("put", 2, 1) # {}

\* C9: every upsert carries the md5 of the feed title, the md5 of the entry id,
\* and as content the text the completion call returned for that entry in this
\* run (the empty string when it failed); every entity of the table has the
\* keys, the link and such a content of one entry; and an entry whose completion
\* call returned has exactly one upsert.
C9_RecordIsSummarizerOutput ==
    /\ \A k \in Calls("put") :
          /\ trace[k].pk = md5(FeedTitle(rss_urls[trace[k].f]))
          /\ trace[k].rk = md5(FeedEntries(rss_urls[trace[k].f])[trace[k].n].id)
          /\ \E j \in At("summarize", trace[k].f, trace[k].n) :
                j < k /\ trace[j].res = trace[k].res
    /\ \A e \in table :
          \E f \in 1..Len(rss_urls) : \E n \in 1..Len(FeedEntries(rss_urls[f])) :
              /\ e.PartitionKey = KeyOf(f, n)[1]
              /\ e.RowKey = KeyOf(f, n)[2]
              /\ e.url = FeedEntries(rss_urls[f])[n].link
    /\ \A k \in Calls("summarize") :
          (trace[k].ok /\ Settled(trace[k].f, trace[k].n))
          => Cardinality(At("put", trace[k].f, trace[k].n)) = 1

\* C10: a failed upsert is logged, is not tried again, the result is still
\* logged at level info, the main loop goes on with the next entry, and the
\* table holds an entity for the keys only if it did before.
C10_FailedPutLoggedNotRetried ==
    \A k \in Calls("put") :
        ~ trace[k].ok =>
            /\ k + 2 <= Len(trace)
            /\ trace[k + 1].op = "error"
            /\ trace[k + 1].res = "Write to history table failed"
            /\ trace[k + 2].op = "info" /\ trace[k + 2].res = trace[k].res
            /\ At("put", trace[k].f, trace[k].n) = {k}
            /\ (Lookup(table, trace[k].pk, trace[k].rk) # {}) = trace[k].ex
            /\ k + 2 = Len(trace)
                  => \/ pc = "entry" /\ fidx = trace[k].f /\ pos = trace[k].n + 1
                     \/ /\ pc \in {"feed", "done"}
                        /\ fidx = trace[k].f + 1
                        /\ trace[k].n = Min(Len(FeedEntries(rss_urls[trace[k].f])), Cap)
            /\ k + 3 <= Len(trace)
                  => \/ trace[k + 3].op = "get" /\ trace[k + 3].f = trace[k].f
                                                /\ trace[k + 3].n = trace[k].n + 1
                     \/ trace[k + 3].op = "parse" /\ trace[k + 3].f = trace[k].f + 1

\* C10, witness: an upsert failed for a summarized entry that had no entity, the
\* summary was logged, and the main loop has read the table for the next entry.
C10_Witness ==
    \E k \in Calls("put") :
        /\ ~ trace[k].ok /\ ~ trace[k].ex /\ trace[k].res # ""
        /\ k + 3 <= Len(trace)
        /\ trace[k + 3].op = "get"
        /\ Lookup(table, trace[k].pk, trace[k].rk) = {}

\* C11: every segment get_article returns, the title segment included, is
\* non-empty and at most 2000 characters long.
C11_SegmentsWithinChunkSize ==
    extracted.done =>
        \A k \in 1..Len(extracted.text_chunks) :
            /\ TextLen(extracted.text_chunks[k]) > 0
            /\ TextLen(extracted.text_chunks[k]) <= chunk_size

\* The splitter was called and its chunks were returned: the chunks after the
\* title segment.
SplitReturned == extracted.done /\ extracted.text_chunks # <<>>
BodyChunks == Tail(extracted.text_chunks)

NonWhite(text) == SelectSeq(text, LAMBDA span : span.c \notin WhiteSpace)

\* strip_whitespace: the chunk a text of less than chunk_size characters gives.
Stripped(text) == IF strip(text) = <<>> THEN <<>> ELSE << strip(text) >>

PickedContainer == Container(BeautifulSoup(html))
PickedH1 ==
    IF PickedContainer = <<>> THEN <<>>
    ELSE find(NodeAt(BeautifulSoup(html), PickedContainer), {"h1"})
HeadingText ==
    get_text(NodeAt(NodeAt(BeautifulSoup(html), PickedContainer), PickedH1))

\* C13: when the container holds an h1, the first segment is "title: " followed
\* by the text of the h1, and no later segment holds a span of that h1.
C13_TitleFirstHeadingRemoved ==
    extracted.done /\ PickedH1 # <<>> =>
        /\ ~ extracted.raised
        /\ Len(extracted.text_chunks) >= 1
        /\ extracted.text_chunks[1] = << W("title:"), Sp >> \o HeadingText
        /\ \A k \in 2..Len(extracted.text_chunks) :
             \A j \in 1..Len(extracted.text_chunks[k]) :
                \A h \in 1..Len(HeadingText) :
                    extracted.text_chunks[k][j] # HeadingText[h]

\* A heading with text was found and body segments follow the title segment.
C13_Witness ==
    /\ extracted.done
    /\ PickedH1 # <<>>
    /\ HeadingText # <<>>
    /\ Len(extracted.text_chunks) >= 2
    /\ extracted.text_chunks[1] = << W("title:"), Sp >> \o HeadingText

\* C14: an entry whose get_entity gave nothing is fetched, then extracted, then
\* summarized, in that order; the completion call is made only after a fetch
\* that gave content and an extraction that gave segments; and once the main
\* loop is through with the entry it is Recorded (an upsert was issued) or
\* SkippedNoArticle (extraction gave no segments and no upsert was issued).
C14_EntryStateMachine ==
    \A k \in Calls("get") :
        trace[k].res = "None" =>
            LET f == trace[k].f
                n == trace[k].n
            IN
            /\ \A x \in At("fetch", f, n) : x > k
            /\ \A x \in At("extract", f, n) :
                    \E y \in At("fetch", f, n) : y < x /\ trace[y].ok
            /\ \A x \in At("summarize", f, n) :
                    \E y \in At("extract", f, n) :
                        y < x /\ trace[y].ok /\ trace[y].res = "chunks"
            /\ Settled(f, n) =>
                    /\ At("fetch", f, n) # {}
                    /\ \/ At("put", f, n) # {}
                       \/ \E y \in At("extract", f, n) : trace[y].res = "[]"

\* C15: when the container holds no h1, get_article does not fail and returns
\* the chunks of the body text, without a title segment.
C15_NoHeadingNoTitle ==
    extracted.done /\ PickedContainer # <<>> /\ PickedH1 = <<>> =>
        /\ ~ extracted.raised
        /\ extracted.text_chunks = split_text(extracted.text)

\* The first article element of html and the first main element (paths; <<>>
\* for none).
FirstArticle == find(BeautifulSoup(html), {"article"})
FirstMain == find(BeautifulSoup(html), {"main"})

\* What get_article did is what lines 98-127 do with this element.
ExtractedFrom(path) ==
    /\ extracted.raised = extract(NodeAt(BeautifulSoup(html), path)).raised
    /\ extracted.text_chunks = extract(NodeAt(BeautifulSoup(html), path)).text_chunks
    /\ extracted.text = extract(NodeAt(BeautifulSoup(html), path)).text

\* C16: the text is extracted from the article element when there is one, from
\* the main element only when there is no article element, and the result is
\* empty when there is neither.
C16_ArticleBeforeMain ==
    extracted.done =>
        IF FirstArticle # <<>> THEN ExtractedFrom(FirstArticle)
        ELSE IF FirstMain # <<>> THEN ExtractedFrom(FirstMain)
        ELSE ~ extracted.raised /\ extracted.text_chunks = <<>>

\* C17: no entry at a position after the cap is looked up, fetched, summarized
\* or recorded, whatever happened to the entries before it.
C17_NothingBeyondCap ==
    /\ \A k \in 1..Len(trace) : trace[k].n <= Cap
    /\ \A f \in 1..Len(rss_urls) :
          \A n \in (Cap + 1)..Len(FeedEntries(rss_urls[f])) :
              Lookup(table, KeyOf(f, n)[1], KeyOf(f, n)[2]) = {}

\* C17, witness: the run is over, the first Cap entries of the second feed were
\* all skipped as recorded, and the entry after them was not looked up.
C17_Witness ==
    /\ pc = "done"
    /\ \A n \in 1..Cap :
          \E k \in At("get", 2, n) : trace[k].res = "entity"
    /\ At("fetch", 2, Cap) = {}
    /\ At("get", 2, Cap + 1) = {}

====
